---- MODULE Spec2Model ----
(***************************************************************************)
(* The VGA text console of rust-os (src/src/vga_buffer.rs): the Writer     *)
(* over the character grid, and the print entry point _print, which takes  *)
(* the spin lock WRITER from the mainline and, in the second              *)
(* specification, from an interrupt handler that preempts the mainline.    *)
(***************************************************************************)
EXTENDS Integers, Sequences, FiniteSets

\* ---------------------------------------------------------------- bounds
\* The grid is 80 x 25 in the source (lines 76-77); the model scales it down.
BUFFER_HEIGHT == 3
BUFFER_WIDTH == 3
\* Bytes the writer processes in one run of the mainline-only specification.
MaxBytes == 6
\* Bytes the writer processes in one run of the specification with interrupts.
MaxIrqBytes == 3
\* Bytes the writer processes in one run of the specification of the strings.
MaxStringBytes == 5

\* ------------------------------------------------------------- constants
Black == 0
White == 15
NEWLINE == 10
BACKSPACE == 8
SPACE == 32
TILDE == 126
SENTINEL == 0
PLACEHOLDER == 254

\* The input bytes of the model: printable 'A' and '~' (the upper edge of the
\* printable range), newline, backspace, and the unsupported byte DEL (the byte
\* just above the printable range).
Bytes == {65, TILDE, NEWLINE, BACKSPACE, 127}

Rows == 0 .. (BUFFER_HEIGHT - 1)
Cols == 0 .. (BUFFER_WIDTH - 1)

\* ------------------------------------------------------------ ColorCode
RECURSIVE BitOr(_, _)
BitOr(a, b) ==
    IF a = 0 THEN b
    ELSE IF b = 0 THEN a
    ELSE (IF (a % 2 = 1) \/ (b % 2 = 1) THEN 1 ELSE 0) + 2 * BitOr(a \div 2, b \div 2)

\* ColorCode::new with the two nibbles exchanged.
ColorCode_new_swapped(foreground, background) ==
    BitOr((foreground * 16) % 256, background)

\* ColorCode((background as u8) << 4 | (foreground as u8))
ColorCode_new(foreground, background) ==
    BitOr((background * 16) % 256, foreground)

ScreenChar(byte, color) == [ascii_character |-> byte, color_code |-> color]

\* What the hardware buffer may hold before the first write: a screen of
\* spaces in the BIOS attribute, or zeroed memory.
InitCells == {ScreenChar(SPACE, 7), ScreenChar(0, 0)}

\* static HELLO: &[u8] = b"Hello World" (main.rs, line 5).
HELLO == <<72, 101, 108, 108, 111, 32, 87, 111, 114, 108, 100>>
\* let color: u8 = 0xb (main.rs, line 11).
HelloColor == 11

\* _start (main.rs, lines 10-17): byte i of HELLO goes to offset 2 * i of the
\* memory at 0xb8000 and the color to offset 2 * i + 1, without WRITER and its
\* lock. Cell i of that memory is chars[i / BUFFER_WIDTH][i % BUFFER_WIDTH];
\* the bytes past the last cell of the grid fall outside the Buffer.
_start(chars) ==
    [row \in Rows |-> [col \in Cols |->
        LET i == row * BUFFER_WIDTH + col
        IN  IF i < Len(HELLO) THEN ScreenChar(HELLO[i + 1], HelloColor)
            ELSE chars[row][col]]]

\* The cells _start stores.
HelloCells == {ScreenChar(HELLO[i], HelloColor) : i \in 1 .. Len(HELLO)}

\* ---------------------------------------------------------------- Writer
\* A writer w is a record with the fields of struct Writer.

\* shift_up: for row in 1..BUFFER_HEIGHT, copy row to row - 1, in ascending order.
RECURSIVE shift_rows(_, _)
shift_rows(chars, row) ==
    IF row >= BUFFER_HEIGHT THEN chars
    ELSE shift_rows([chars EXCEPT ![row - 1] = chars[row]], row + 1)

\* shift_up with the loop started one row late.
shift_up_from_2(w) == [w EXCEPT !.buffer = shift_rows(w.buffer, 2)]

shift_up(w) == [w EXCEPT !.buffer = shift_rows(w.buffer, 1)]

clear_row(w, row) ==
    [w EXCEPT !.buffer[row] = [col \in Cols |-> ScreenChar(SPACE, w.color_code)]]

\* new_line without the reset of the column.
new_line_keep_column(w) ==
    IF w.row_position = BUFFER_HEIGHT - 1
    THEN clear_row(shift_up(w), BUFFER_HEIGHT - 1)
    ELSE [w EXCEPT !.row_position = @ + 1]

new_line(w) ==
    LET moved == IF w.row_position = BUFFER_HEIGHT - 1
                 THEN clear_row(shift_up(w), BUFFER_HEIGHT - 1)
                 ELSE [w EXCEPT !.row_position = @ + 1]
    IN  [moved EXCEPT !.column_position = 0]

\* place_byte with the wrap made as soon as the last column is filled.
place_byte_eager_wrap(w, byte) ==
    LET row == w.row_position
        col == w.column_position
        w1 == [w EXCEPT !.buffer[row][col] = ScreenChar(byte, w.color_code),
                        !.column_position = @ + 1]
    IN  IF w1.column_position >= BUFFER_WIDTH THEN new_line(w1) ELSE w1

\* place_byte without the advance of the column.
place_byte_keep_column(w, byte) ==
    LET w1 == IF w.column_position >= BUFFER_WIDTH THEN new_line(w) ELSE w
        row == w1.row_position
        col == w1.column_position
    IN  [w1 EXCEPT !.buffer[row][col] = ScreenChar(byte, w1.color_code)]

\* place_byte with the wrap test written > instead of >=.
place_byte_late_wrap(w, byte) ==
    LET w1 == IF w.column_position > BUFFER_WIDTH THEN new_line(w) ELSE w
        row == w1.row_position
        col == w1.column_position
    IN  [w1 EXCEPT !.buffer[row][col] = ScreenChar(byte, w1.color_code),
                   !.column_position = @ + 1]

\* The placement arm of write_byte (lines 102-114).
place_byte(w, byte) ==
    LET w1 == IF w.column_position >= BUFFER_WIDTH THEN new_line(w) ELSE w
        row == w1.row_position
        col == w1.column_position
    IN  [w1 EXCEPT !.buffer[row][col] = ScreenChar(byte, w1.color_code),
                   !.column_position = @ + 1]

write_byte(w, byte) ==
    IF byte = NEWLINE THEN new_line(w) ELSE place_byte(w, byte)

\* The store of lines 109-112 taken apart: a ScreenChar is two bytes, which the
\* machine may store one after the other. First the character code of the cell
\* under the cursor (after the wrap), then its color and the column += 1.
place_character(w, byte) ==
    LET w1 == IF w.column_position >= BUFFER_WIDTH THEN new_line(w) ELSE w
    IN  [w1 EXCEPT !.buffer[w1.row_position][w1.column_position].ascii_character = byte]

place_color(w) ==
    [w EXCEPT !.buffer[w.row_position][w.column_position].color_code = w.color_code,
              !.column_position = @ + 1]

\* get_last_col: the index of the first cell of the row holding 0x00. The loop
\* has no bound: OOB stands for the read of chars[row][BUFFER_WIDTH], an index
\* out of bounds, on which the program panics.
OOB == -1

RECURSIVE scan_row(_, _, _)
scan_row(w, row, col) ==
    IF col >= BUFFER_WIDTH THEN OOB
    ELSE IF w.buffer[row][col].ascii_character = SENTINEL THEN col
    ELSE scan_row(w, row, col + 1)

get_last_col(w, row) == scan_row(w, row, 0)

\* backspace panics exactly when its call of get_last_col does.
backspace_panics(w) ==
    /\ ~(w.row_position = 0 /\ w.column_position = 0)
    /\ w.column_position = 0
    /\ get_last_col(w, w.row_position - 1) = OOB

\* backspace without the early return at the origin: the cell under the cursor
\* is erased there.
backspace_no_origin(w) ==
    IF w.column_position = 0 /\ w.row_position > 0
    THEN LET up == [w EXCEPT !.row_position = @ - 1]
             last == get_last_col(up, up.row_position)
         IN  IF last = OOB THEN up ELSE [up EXCEPT !.column_position = last]
    ELSE LET col == IF w.column_position = 0 THEN 0 ELSE w.column_position - 1
         IN  [w EXCEPT !.buffer[w.row_position][col] = ScreenChar(SENTINEL, w.color_code),
                       !.column_position = col]

\* backspace erasing with a space, as its comment says, instead of 0x00.
backspace_space(w) ==
    IF w.row_position = 0 /\ w.column_position = 0 THEN w
    ELSE IF w.column_position = 0
    THEN LET up == [w EXCEPT !.row_position = @ - 1]
             last == get_last_col(up, up.row_position)
         IN  IF last = OOB THEN up ELSE [up EXCEPT !.column_position = last]
    ELSE [w EXCEPT !.buffer[w.row_position][w.column_position - 1] =
                        ScreenChar(SPACE, w.color_code),
                   !.column_position = @ - 1]

\* backspace; when get_last_col panics the row has been decremented already
\* and the column is never assigned.
backspace(w) ==
    IF w.row_position = 0 /\ w.column_position = 0 THEN w
    ELSE IF w.column_position = 0
    THEN LET up == [w EXCEPT !.row_position = @ - 1]
             last == get_last_col(up, up.row_position)
         IN  IF last = OOB THEN up ELSE [up EXCEPT !.column_position = last]
    ELSE [w EXCEPT !.buffer[w.row_position][w.column_position - 1] =
                        ScreenChar(SENTINEL, w.color_code),
                   !.column_position = @ - 1]

\* The printable range with its upper end excluded.
IsPrintable_exclusive(byte) == byte >= SPACE /\ byte < TILDE

IsPrintable(byte) == byte >= SPACE /\ byte <= TILDE

\* The match with its last arm passing the byte on as it is.
write_string_byte_raw(w, byte) ==
    IF byte = BACKSPACE THEN backspace(w) ELSE write_byte(w, byte)

\* The body of the loop of write_string: the match on one byte.
write_string_byte(w, byte) ==
    IF IsPrintable(byte) \/ byte = NEWLINE THEN write_byte(w, byte)
    ELSE IF byte = BACKSPACE THEN backspace(w)
    ELSE write_byte(w, PLACEHOLDER)

byte_panics(w, byte) == byte = BACKSPACE /\ backspace_panics(w)

\* write_string that ends each call by wrapping a full line.
RECURSIVE write_string_flush(_, _)
write_string_flush(w, s) ==
    IF s = <<>> THEN (IF w.column_position >= BUFFER_WIDTH THEN new_line(w) ELSE w)
    ELSE IF byte_panics(w, Head(s)) THEN write_string_byte(w, Head(s))
    ELSE write_string_flush(write_string_byte(w, Head(s)), Tail(s))

\* write_string: the bytes in order; a panic ends the run of the program.
RECURSIVE write_string(_, _)
write_string(w, s) ==
    IF s = <<>> THEN w
    ELSE IF byte_panics(w, Head(s)) THEN write_string_byte(w, Head(s))
    ELSE write_string(write_string_byte(w, Head(s)), Tail(s))

RECURSIVE string_panics(_, _)
string_panics(w, s) ==
    IF s = <<>> THEN FALSE
    ELSE IF byte_panics(w, Head(s)) THEN TRUE
    ELSE string_panics(write_string_byte(w, Head(s)), Tail(s))

\* The reader of test_print_output: chars[row][i].read().ascii_character.
read_char(w, row, col) == w.buffer[row][col].ascii_character

\* lazy_static WRITER over a buffer filled with the cell c.
NewWriter(c) ==
    [column_position |-> 0,
     row_position |-> 0,
     color_code |-> ColorCode_new(White, Black),
     buffer |-> [row \in Rows |-> [col \in Cols |-> c]],
     input_mode |-> FALSE]

\* ----------------------------------------------------------------- state
VARIABLES
    writer,          \* the Writer inside WRITER
    lock,            \* the spin::Mutex: "free", or the context that holds it
    interrupts,      \* the CPU's interrupt flag: TRUE when interrupts are enabled
    pc,              \* where each context is inside _print
    once,            \* the spin::Once of the lazy_static WRITER
    saved,           \* without_interrupts: the flag each context saved
    panicked,        \* the panic handler was entered (it loops for ever)
    args,            \* the bytes of the current call's string consumed so far
    start,           \* the writer when the current call's write_fmt began
    prev,            \* the writer before the last byte was processed
    budget           \* bytes the run may still process

vars == <<writer, lock, interrupts, pc, once, saved, panicked, args, start, prev, budget>>

Ctx == {"main", "irq"}

\* A context holds the lock exactly at these places of _print.
Holding == {"set_input_mode", "write_fmt", "store_color", "panic"}

InitWith(n) ==
    /\ \E c \in InitCells, hello \in BOOLEAN :
         writer = IF hello THEN [NewWriter(c) EXCEPT !.buffer = _start(@)]
                  ELSE NewWriter(c)
    /\ lock = "free"
    /\ interrupts = TRUE
    /\ pc = [c \in Ctx |-> "idle"]
    /\ once = "incomplete"
    /\ saved = [c \in Ctx |-> FALSE]
    /\ panicked = FALSE
    /\ args = <<>>
    /\ start = writer
    /\ prev = writer
    /\ budget = n

Init == InitWith(MaxBytes)
InitIrq == InitWith(MaxIrqBytes)
InitString == InitWith(MaxStringBytes)

\* On one core the mainline runs only while no handler is active.
Runs(c) ==
    /\ ~panicked
    /\ c = "main" => pc["irq"] = "idle"

\* A lock that never waits.
CanLock_always(c) == TRUE

\* Mutex::lock succeeds when the lock is free; otherwise the caller spins.
CanLock(c) == lock = "free"

\* The mainline calls _print.
Call ==
    /\ Runs("main")
    /\ pc["main"] = "idle"
    /\ budget > 0
    /\ pc' = [pc EXCEPT !["main"] = "lock_input_mode"]
    /\ UNCHANGED <<once, writer, lock, interrupts, saved, panicked, args, start, prev, budget>>

\* Line 29, the first use of WRITER: the deref of the lazy_static finds its
\* Once incomplete, marks it running and enters the builder of lines 193-199.
OnceStart(c) ==
    /\ Runs(c)
    /\ pc[c] = "lock_input_mode"
    /\ once = "incomplete"
    /\ once' = "running"
    /\ pc' = [pc EXCEPT ![c] = "build_writer"]
    /\ UNCHANGED <<writer, lock, interrupts, saved, panicked, args, start, prev, budget>>

\* The builder returns the Writer over the memory at 0xb8000; the Once is
\* complete and the deref goes on to Mutex::lock.
OnceFinish(c) ==
    /\ Runs(c)
    /\ pc[c] = "build_writer"
    /\ writer' = [column_position |-> 0,
                  row_position |-> 0,
                  color_code |-> ColorCode_new(White, Black),
                  buffer |-> writer.buffer,
                  input_mode |-> FALSE]
    /\ once' = "complete"
    /\ pc' = [pc EXCEPT ![c] = "lock_input_mode"]
    /\ UNCHANGED <<lock, interrupts, saved, panicked, args, start, prev, budget>>

\* Line 29: WRITER.lock() of the statement that sets input_mode. The deref of
\* WRITER passes a complete Once; on a running Once it spins, whatever the lock.
LockInputMode(c) ==
    /\ Runs(c)
    /\ pc[c] = "lock_input_mode"
    /\ once = "complete"
    /\ CanLock(c)
    /\ lock' = c
    /\ pc' = [pc EXCEPT ![c] = "set_input_mode"]
    /\ UNCHANGED <<once, writer, interrupts, saved, panicked, args, start, prev, budget>>

\* Line 29: .input_mode = false; the guard is dropped at the end of the statement.
SetInputMode(c) ==
    /\ Runs(c)
    /\ pc[c] = "set_input_mode"
    /\ writer' = [writer EXCEPT !.input_mode = FALSE]
    /\ lock' = "free"
    /\ pc' = [pc EXCEPT ![c] = "without_interrupts"]
    /\ UNCHANGED <<once, interrupts, saved, panicked, args, start, prev, budget>>

\* Line 30: without_interrupts saves the flag and disables interrupts.
DisableInterrupts(c) ==
    /\ Runs(c)
    /\ pc[c] = "without_interrupts"
    /\ saved' = [saved EXCEPT ![c] = interrupts]
    /\ interrupts' = FALSE
    /\ pc' = [pc EXCEPT ![c] = "lock_write"]
    /\ UNCHANGED <<once, writer, lock, panicked, args, start, prev, budget>>

\* The write started without the lock being taken.
LockWrite_unguarded(c) ==
    /\ Runs(c)
    /\ pc[c] = "lock_write"
    /\ pc' = [pc EXCEPT ![c] = "write_fmt"]
    /\ args' = <<>>
    /\ start' = writer
    /\ prev' = writer
    /\ UNCHANGED <<once, writer, lock, interrupts, saved, panicked, budget>>

\* Line 31: WRITER.lock() of the write; write_fmt starts on the locked writer.
LockWrite(c) ==
    /\ Runs(c)
    /\ pc[c] = "lock_write"
    /\ once = "complete"
    /\ CanLock(c)
    /\ lock' = c
    /\ pc' = [pc EXCEPT ![c] = "write_fmt"]
    /\ args' = <<>>
    /\ start' = writer
    /\ prev' = writer
    /\ UNCHANGED <<once, writer, interrupts, saved, panicked, budget>>

\* One iteration of the loop of write_string, on the next byte of the string.
WriteByte(c) ==
    /\ Runs(c)
    /\ pc[c] = "write_fmt"
    /\ budget > 0
    /\ \E byte \in Bytes :
         /\ args' = Append(args, byte)
         /\ prev' = writer
         /\ writer' = write_string_byte(writer, byte)
         /\ panicked' = byte_panics(writer, byte)
         /\ pc' = [pc EXCEPT ![c] = IF byte_panics(writer, byte) THEN "panic" ELSE "write_fmt"]
    /\ budget' = budget - 1
    /\ UNCHANGED <<once, lock, interrupts, saved, start>>

\* One iteration of the loop on a newline or a backspace.
ControlByte(c) ==
    /\ Runs(c)
    /\ pc[c] = "write_fmt"
    /\ budget > 0
    /\ \E byte \in Bytes \cap {NEWLINE, BACKSPACE} :
         /\ args' = Append(args, byte)
         /\ prev' = writer
         /\ writer' = write_string_byte(writer, byte)
         /\ panicked' = byte_panics(writer, byte)
         /\ pc' = [pc EXCEPT ![c] = IF byte_panics(writer, byte) THEN "panic" ELSE "write_fmt"]
    /\ budget' = budget - 1
    /\ UNCHANGED <<once, lock, interrupts, saved, start>>

\* One iteration of the loop on a placed byte, up to the store of the
\* character code of the cell.
StoreCharacter(c) ==
    /\ Runs(c)
    /\ pc[c] = "write_fmt"
    /\ budget > 0
    /\ \E byte \in Bytes \ {NEWLINE, BACKSPACE} :
         /\ args' = Append(args, byte)
         /\ prev' = writer
         /\ writer' = place_character(writer, IF IsPrintable(byte) THEN byte ELSE PLACEHOLDER)
    /\ pc' = [pc EXCEPT ![c] = "store_color"]
    /\ budget' = budget - 1
    /\ UNCHANGED <<once, lock, interrupts, saved, panicked, start>>

\* The rest of the iteration: the store of the color, and column_position += 1.
StoreColor(c) ==
    /\ Runs(c)
    /\ pc[c] = "store_color"
    /\ writer' = place_color(writer)
    /\ pc' = [pc EXCEPT ![c] = "write_fmt"]
    /\ UNCHANGED <<once, lock, interrupts, saved, panicked, args, start, prev, budget>>

\* Line 31: the string is at its end; the guard is dropped.
Unlock(c) ==
    /\ Runs(c)
    /\ pc[c] = "write_fmt"
    /\ lock' = "free"
    /\ pc' = [pc EXCEPT ![c] = "restore"]
    /\ UNCHANGED <<once, writer, interrupts, saved, panicked, args, start, prev, budget>>

\* Line 32: without_interrupts enables interrupts again if they were enabled;
\* _print returns (the handler goes on to its return from interrupt).
RestoreInterrupts(c) ==
    /\ Runs(c)
    /\ pc[c] = "restore"
    /\ interrupts' = (IF saved[c] THEN TRUE ELSE interrupts)
    /\ pc' = [pc EXCEPT ![c] = IF c = "irq" THEN "iret" ELSE "idle"]
    /\ UNCHANGED <<once, writer, lock, saved, panicked, args, start, prev, budget>>

\* A hardware interrupt preempts the mainline wherever interrupts are enabled;
\* the CPU clears the flag and the handler calls _print.
Interrupt ==
    /\ ~panicked
    /\ interrupts
    /\ pc["irq"] = "idle"
    /\ budget > 0
    /\ interrupts' = FALSE
    /\ pc' = [pc EXCEPT !["irq"] = "lock_input_mode"]
    /\ UNCHANGED <<once, writer, lock, saved, panicked, args, start, prev, budget>>

\* The handler returns: the mainline resumes with interrupts enabled.
Iret ==
    /\ ~panicked
    /\ pc["irq"] = "iret"
    /\ interrupts' = TRUE
    /\ pc' = [pc EXCEPT !["irq"] = "idle"]
    /\ UNCHANGED <<once, writer, lock, saved, panicked, args, start, prev, budget>>

PrintSteps(c) ==
    \/ OnceStart(c)
    \/ OnceFinish(c)
    \/ LockInputMode(c)
    \/ SetInputMode(c)
    \/ DisableInterrupts(c)
    \/ LockWrite(c)
    \/ WriteByte(c)
    \/ Unlock(c)
    \/ RestoreInterrupts(c)

\* The repository installs no interrupt handler: the mainline alone.
Next == Call \/ PrintSteps("main")

Spec == Init /\ [][Next]_vars

\* The mainline alone, writing strings of MaxStringBytes bytes in all.
SpecString == InitString /\ [][Next]_vars

\* The mainline and an interrupt handler that calls _print.
NextIrq == Call \/ Interrupt \/ Iret \/ \E c \in Ctx : PrintSteps(c)

SpecIrq == InitIrq /\ [][NextIrq]_vars

\* The mainline and the handler, with the two stores of a cell as two steps.
PrintStepsCells(c) ==
    \/ OnceStart(c)
    \/ OnceFinish(c)
    \/ LockInputMode(c)
    \/ SetInputMode(c)
    \/ DisableInterrupts(c)
    \/ LockWrite(c)
    \/ ControlByte(c)
    \/ StoreCharacter(c)
    \/ StoreColor(c)
    \/ Unlock(c)
    \/ RestoreInterrupts(c)

NextCells == Call \/ Interrupt \/ Iret \/ \E c \in Ctx : PrintStepsCells(c)

SpecCells == InitIrq /\ [][NextCells]_vars


\* ---------------------------------------------------------------- claims
\* The last byte processed by the current call, and whether there is one.
Acted == args # <<>>
Last == args[Len(args)]
\* The byte classes the claims speak of.
Printable == 32 .. 126
Unsupported == (0 .. 255) \ (Printable \cup {10, 8})
IsPlaced(byte) == byte \in Printable \cup Unsupported
Glyph(byte) == IF byte \in Printable THEN byte ELSE 254
AllPrintable(s) == \A i \in 1 .. Len(s) : s[i] \in Printable
\* The row a newline transition leads to.
RowBelow(row) == IF row = BUFFER_HEIGHT - 1 THEN BUFFER_HEIGHT - 1 ELSE row + 1
Returned == pc["main"] = "idle" /\ Acted

\* C1: whenever the writer lock is held, interrupts are disabled.
C1_InterruptsOffWhileLocked == lock # "free" => ~interrupts

\* C2: the handler never waits for something the mainline it interrupted holds:
\* the lock, or the running Once of the first use of WRITER (the handler would
\* spin for ever and no call would return).
C2_NoSelfDeadlock ==
    /\ ~(pc["irq"] \in {"lock_input_mode", "lock_write"} /\ lock = "main")
    /\ ~(pc["irq"] = "lock_input_mode" /\ once = "running")

\* C3: mutual exclusion: the lock is held by exactly the context inside a
\* mutation, never two contexts are inside one, no handler runs between the
\* bytes of a mainline write, and the lock is free once a call has returned.
C3_MutualExclusion ==
    /\ \A c \in Ctx : (lock = c) <=> (pc[c] \in Holding)
    /\ ~(pc["main"] \in Holding /\ pc["irq"] \in Holding)
    /\ pc["main"] \in {"lock_write", "write_fmt", "panic"} =>
           (~interrupts /\ pc["irq"] = "idle")
    /\ \A c \in Ctx : pc[c] \in {"restore", "iret"} => lock = "free"

\* The handler is writing its string while the mainline is between the two
\* critical sections of its own call.
C3_Witness ==
    /\ pc["irq"] = "write_fmt"
    /\ Acted
    /\ pc["main"] = "without_interrupts"
    /\ lock = "irq"

\* The string written from a fresh line: the whole string of a call that began
\* at column 0, or what follows a leading newline.
FreshLine == Acted /\ (start.column_position = 0 \/ Head(args) = NEWLINE)
FreshString == IF start.column_position = 0 THEN args ELSE Tail(args)

\* C4 as claimed: any printable string written from a fresh line is read back
\* from the cells of the current row, cell i holding byte i.
C4_RoundTripAnyLength ==
    (FreshLine /\ AllPrintable(FreshString)) =>
        \A i \in 1 .. Len(FreshString) :
            /\ (i - 1) \in Cols
            /\ read_char(writer, writer.row_position, i - 1) = FreshString[i]

\* C4: a printable string of at most BUFFER_WIDTH bytes written from a fresh
\* line is read back from the cells of the current row, cell i holding byte i.
C4_RoundTrip ==
    (FreshLine /\ AllPrintable(FreshString) /\ Len(FreshString) <= BUFFER_WIDTH) =>
        \A i \in 1 .. Len(FreshString) :
            read_char(writer, writer.row_position, i - 1) = FreshString[i]

\* A call that wrote a full row of printable bytes, not all the same, after a
\* newline has returned.
C4_Witness ==
    /\ Returned
    /\ Head(args) = NEWLINE
    /\ AllPrintable(Tail(args))
    /\ Len(Tail(args)) = BUFFER_WIDTH
    /\ args[2] # args[Len(args)]

\* The call began at column 0 and has written BUFFER_WIDTH printable bytes and
\* one more placed byte.
WrapCase ==
    /\ Len(args) = BUFFER_WIDTH + 1
    /\ start.column_position = 0
    /\ AllPrintable(SubSeq(args, 1, BUFFER_WIDTH))
    /\ IsPlaced(Last)

\* C5: BUFFER_WIDTH printable bytes from column 0 of row r and one more placed
\* byte: the extra byte is in column 0 of the next row (the last row again after
\* a scroll), the cursor is at column 1 of that row, and the first row written
\* still holds the BUFFER_WIDTH bytes.
C5_WrapBoundary ==
    WrapCase =>
        LET full == IF start.row_position = BUFFER_HEIGHT - 1
                    THEN BUFFER_HEIGHT - 2 ELSE start.row_position
        IN  /\ writer.row_position = RowBelow(start.row_position)
            /\ writer.column_position = 1
            /\ writer.buffer[writer.row_position][0] =
                   ScreenChar(Glyph(Last), writer.color_code)
            /\ \A i \in 1 .. BUFFER_WIDTH :
                   writer.buffer[full][i - 1].ascii_character = args[i]
            /\ \A row \in Rows : DOMAIN writer.buffer[row] = Cols

\* The wrap happened on the last row, with a scroll.
C5_Witness == WrapCase /\ start.row_position = BUFFER_HEIGHT - 1

\* C6: a newline transition on the last row moves every row up by one, leaves
\* the bottom row blank (spaces in the current color) and the cursor at column 0
\* of the last row; when a placement at column BUFFER_WIDTH made the transition,
\* the placed byte alone is in the bottom row.
C6_Scroll ==
    (Acted /\ prev.row_position = BUFFER_HEIGHT - 1) =>
        /\ Last = NEWLINE =>
             /\ \A r \in 1 .. (BUFFER_HEIGHT - 1) : writer.buffer[r - 1] = prev.buffer[r]
             /\ \A col \in Cols :
                    writer.buffer[BUFFER_HEIGHT - 1][col] = ScreenChar(SPACE, writer.color_code)
             /\ writer.row_position = BUFFER_HEIGHT - 1
             /\ writer.column_position = 0
        /\ (IsPlaced(Last) /\ prev.column_position >= BUFFER_WIDTH) =>
             /\ \A r \in 1 .. (BUFFER_HEIGHT - 1) : writer.buffer[r - 1] = prev.buffer[r]
             /\ \A col \in Cols \ {0} :
                    writer.buffer[BUFFER_HEIGHT - 1][col] = ScreenChar(SPACE, writer.color_code)
             /\ writer.row_position = BUFFER_HEIGHT - 1

\* A newline scrolled a grid whose three lowest rows all differed.
C6_Witness ==
    /\ Acted
    /\ Last = NEWLINE
    /\ prev.row_position = BUFFER_HEIGHT - 1
    /\ prev.buffer[0] # prev.buffer[1]
    /\ prev.buffer[BUFFER_HEIGHT - 2] # prev.buffer[BUFFER_HEIGHT - 1]

\* C7: a backspace at the origin changes neither the grid nor the cursor.
C7_BackspaceAtOrigin ==
    (Acted /\ Last = BACKSPACE /\ prev.row_position = 0 /\ prev.column_position = 0) =>
        /\ writer.buffer = prev.buffer
        /\ writer.row_position = 0
        /\ writer.column_position = 0

\* A backspace was processed at the origin of a grid with an erased cell.
C7_Witness ==
    /\ Acted
    /\ Last = BACKSPACE
    /\ prev.row_position = 0
    /\ prev.column_position = 0
    /\ \E row \in Rows, col \in Cols :
           prev.buffer[row][col] = ScreenChar(SENTINEL, prev.color_code)

\* The writer before the byte before the last one.
BeforeLastTwo == write_string(start, SubSeq(args, 1, Len(args) - 2))

\* C8: a backspace at a column > 0 writes the blank sentinel in the current
\* color at (row, column - 1), changes no other cell and decrements the column;
\* after a placement it leaves the cursor where the byte was placed.
C8_BackspaceUndoes ==
    (Acted /\ Last = BACKSPACE) =>
        /\ prev.column_position > 0 =>
             /\ writer.row_position = prev.row_position
             /\ writer.column_position = prev.column_position - 1
             /\ writer.buffer[writer.row_position][writer.column_position] =
                    ScreenChar(SENTINEL, writer.color_code)
             /\ \A row \in Rows, col \in Cols :
                    (row # writer.row_position \/ col # writer.column_position) =>
                        writer.buffer[row][col] = prev.buffer[row][col]
        /\ (Len(args) >= 2 /\ args[Len(args) - 1] \in Printable) =>
             LET w0 == BeforeLastTwo
                 wrapped == w0.column_position >= BUFFER_WIDTH
             IN  /\ writer.row_position =
                        (IF wrapped THEN RowBelow(w0.row_position) ELSE w0.row_position)
                 /\ writer.column_position =
                        (IF wrapped THEN 0 ELSE w0.column_position)
                 /\ writer.buffer[writer.row_position][writer.column_position] =
                        ScreenChar(SENTINEL, writer.color_code)
                 /\ \A row \in Rows, col \in Cols :
                        (row # writer.row_position \/ col # writer.column_position) =>
                            writer.buffer[row][col] = prev.buffer[row][col]

\* A printable byte was placed after a wrap and then erased.
C8_Witness ==
    /\ Acted
    /\ Last = BACKSPACE
    /\ Len(args) >= 2
    /\ args[Len(args) - 1] \in Printable
    /\ BeforeLastTwo.column_position = BUFFER_WIDTH
    /\ writer.column_position = 0

\* What C9 says of the writer before and after an unsupported byte.
PlacedAsPlaceholder(before, after, byte) ==
    LET wrapped == before.column_position >= BUFFER_WIDTH
        row == IF wrapped THEN RowBelow(before.row_position) ELSE before.row_position
        col == IF wrapped THEN 0 ELSE before.column_position
    IN  /\ after.row_position = row
        /\ after.column_position = col + 1
        /\ after.buffer[row][col] = ScreenChar(254, after.color_code)
        /\ after.buffer[row][col].ascii_character # byte

\* Unsupported bytes at the edges of the classes: NUL, the neighbours of
\* backspace and newline, 0x1F, DEL, and the bytes of a two-byte UTF-8 character.
UnsupportedProbes == {0, 7, 9, 11, 31, 127, 195, 169}

\* C9: an unsupported byte is placed as the placeholder glyph in the current
\* color at the cursor (after a wrap if the column had reached BUFFER_WIDTH)
\* and the column advances by one; so it was for the last byte of the call, and
\* so it is for any unsupported byte a write in progress might be given next.
C9_Placeholder ==
    /\ (Acted /\ Last \in Unsupported) => PlacedAsPlaceholder(prev, writer, Last)
    /\ (\E c \in Ctx : pc[c] = "write_fmt") =>
           \A byte \in UnsupportedProbes \cap Unsupported :
               PlacedAsPlaceholder(writer, write_string_byte(writer, byte), byte)

\* An unsupported byte was placed after a wrap, at the start of the next row.
C9_Witness ==
    /\ Acted
    /\ Last = 127
    /\ prev.column_position = BUFFER_WIDTH
    /\ prev.buffer[prev.row_position][BUFFER_WIDTH - 1].ascii_character = PLACEHOLDER
    /\ writer.buffer[writer.row_position][0].ascii_character = PLACEHOLDER

\* C10 as claimed: between calls the cursor is inside the grid.
C10_CursorInsideGrid ==
    pc["main"] # "write_fmt" =>
        /\ writer.row_position \in Rows
        /\ writer.column_position \in Cols

\* C10: the row is inside the grid and the column is at most BUFFER_WIDTH; it
\* is BUFFER_WIDTH only on a row whose last cell holds a placed character.
C10_CursorBounds ==
    /\ writer.row_position \in Rows
    /\ writer.column_position \in 0 .. BUFFER_WIDTH
    /\ writer.column_position = BUFFER_WIDTH =>
           writer.buffer[writer.row_position][BUFFER_WIDTH - 1].ascii_character
               \notin {SENTINEL, NEWLINE, BACKSPACE}

\* A call has returned with the column at BUFFER_WIDTH.
C10_Witness == Returned /\ ~panicked /\ writer.column_position = BUFFER_WIDTH

\* What the claims take the row-end scan to be: the index of the first cell of
\* the row holding 0x00, or BUFFER_WIDTH when the row holds none.
FirstSentinel(w, row) ==
    IF \E col \in Cols : w.buffer[row][col].ascii_character = 0
    THEN CHOOSE col \in Cols :
             /\ w.buffer[row][col].ascii_character = 0
             /\ \A c \in Cols : c < col => w.buffer[row][c].ascii_character # 0
    ELSE BUFFER_WIDTH

\* C11: a backspace at column 0 of a row > 0 moves the cursor to the row above,
\* at the index of that row's first blank sentinel, or at BUFFER_WIDTH when the
\* row holds none; the grid is not modified and the call goes on.
C11_BackspaceLineStart ==
    (Acted /\ Last = BACKSPACE /\ prev.column_position = 0 /\ prev.row_position > 0) =>
        /\ writer.row_position = prev.row_position - 1
        /\ writer.column_position = FirstSentinel(prev, prev.row_position - 1)
        /\ writer.buffer = prev.buffer
        /\ ~panicked

\* C12: no call ends in an out-of-bounds fault: the panic handler is never
\* entered and no context stops inside write_string.
C12_NeverFails ==
    /\ ~panicked
    /\ \A c \in Ctx : pc[c] # "panic"

\* A pair a single cell write stores, or a pair the screen held at the start.
Whole(cell) ==
    \/ cell \in InitCells \cup HelloCells
    \/ cell.color_code = writer.color_code

\* C13: whenever a reader can take the lock, no cell write is half done: no
\* context is between the two stores of a cell, and every cell holds a pair
\* stored by one write or its initial pair.
C13_CellAtomicity ==
    (\E r \in Ctx : CanLock(r)) =>
        /\ \A c \in Ctx : pc[c] # "store_color"
        /\ \A row \in Rows, col \in Cols : Whole(writer.buffer[row][col])

\* The mainline wrote a cell in one call, the handler preempted its next call
\* and wrote the next cell, and the lock is free for a reader.
C13_Witness ==
    /\ pc["irq"] = "iret"
    /\ pc["main"] = "without_interrupts"
    /\ lock = "free"
    /\ writer.buffer[0][0].ascii_character = 65
    /\ writer.buffer[0][1].ascii_character = 126

\* C14: a newline byte above the last row increments the row by one and
\* changes no cell; a newline byte on any row leaves the column at 0.
C14_NewlineAboveLastRow ==
    (Acted /\ Last = NEWLINE) =>
        /\ writer.column_position = 0
        /\ prev.row_position < BUFFER_HEIGHT - 1 =>
             /\ writer.row_position = prev.row_position + 1
             /\ writer.buffer = prev.buffer

\* A newline was processed above the last row with the cursor inside a line.
C14_Witness ==
    /\ Acted
    /\ Last = NEWLINE
    /\ prev.row_position < BUFFER_HEIGHT - 1
    /\ prev.column_position > 0
    /\ writer.row_position = prev.row_position + 1

\* The character codes a cell may hold.
CellCodes == {0} \cup (32 .. 126) \cup {254}

\* C15: every cell of the grid holds 0x00, a printable byte or 0xFE, whatever
\* bytes were written; 0x0A, 0x08 and the unsupported bytes are never stored.
C15_CellDomain ==
    \A row \in Rows, col \in Cols :
        writer.buffer[row][col].ascii_character \in CellCodes

\* A newline, a backspace and an unsupported byte were written, and the
\* unsupported byte is on the screen as 0xFE.
C15_Witness ==
    /\ \E i \in 1 .. Len(args) : args[i] = NEWLINE
    /\ \E i \in 1 .. Len(args) : args[i] = BACKSPACE
    /\ \E i \in 1 .. Len(args) : args[i] \in Unsupported
    /\ \E row \in Rows, col \in Cols : writer.buffer[row][col].ascii_character = 254

\* The last byte scrolled the grid: a newline, or a placement at a full line,
\* on the last row.
Scrolled ==
    /\ Acted
    /\ prev.row_position = BUFFER_HEIGHT - 1
    /\ \/ Last = NEWLINE
       \/ IsPlaced(Last) /\ prev.column_position >= BUFFER_WIDTH

\* C16: the writer's color is 0x0F at all times; a byte leaves each cell as it
\* was or gives it the color 0x0F, except that a scroll moves each cell of rows
\* 1 .. H-1 up one row, character and color together, and gives the whole last
\* row the color 0x0F.
C16_FixedColor ==
    /\ writer.color_code = 15
    /\ Acted =>
         \A row \in Rows, col \in Cols :
             IF Scrolled
             THEN IF row < BUFFER_HEIGHT - 1
                  THEN writer.buffer[row][col] = prev.buffer[row + 1][col]
                  ELSE writer.buffer[row][col].color_code = 15
             ELSE \/ writer.buffer[row][col] = prev.buffer[row][col]
                  \/ writer.buffer[row][col].color_code = 15

\* A scroll moved up a row holding a written cell beside a cell never written.
C16_Witness ==
    /\ Scrolled
    /\ \E row \in Rows, c1 \in Cols, c2 \in Cols :
         /\ row < BUFFER_HEIGHT - 1
         /\ writer.buffer[row][c1] = ScreenChar(65, 15)
         /\ writer.buffer[row][c2].color_code # 15

\* write_string(s1) followed by write_string(s2); a panic in the first call
\* ends the program, and the second call is never made.
TwoCalls(w, s1, s2) ==
    IF string_panics(w, s1) THEN write_string(w, s1)
    ELSE write_string(write_string(w, s1), s2)

\* C17: when a call of write_string ends, the writer is what the bytes of the
\* string make of the writer the call started on, and for every split of the
\* string into s1 and s2, write_string(s1) then write_string(s2) gives the
\* same grid and cursor.
C17_SequentialComposition ==
    (Acted /\ pc["main"] \in {"restore", "panic"}) =>
        /\ writer = write_string(start, args)
        /\ \A k \in 0 .. Len(args) :
             TwoCalls(start, SubSeq(args, 1, k), SubSeq(args, k + 1, Len(args))) = writer

\* A call ended whose string splits between a byte that filled the line and
\* a newline.
C17_Witness ==
    /\ pc["main"] = "restore"
    /\ Len(args) >= BUFFER_WIDTH + 2
    /\ \E k \in 1 .. Len(args) - 1 :
         /\ write_string(start, SubSeq(args, 1, k)).column_position = BUFFER_WIDTH
         /\ args[k + 1] = NEWLINE

\* BUFFER_WIDTH printable bytes from column 0 of a row above the last, and
\* then a newline.
FullLineThenNewline ==
    /\ Len(args) = BUFFER_WIDTH + 1
    /\ start.column_position = 0
    /\ start.row_position < BUFFER_HEIGHT - 1
    /\ \A i \in 1 .. BUFFER_WIDTH : args[i] \in Printable
    /\ Last = NEWLINE

\* C18: BUFFER_WIDTH printable bytes from column 0 of row r < H-1 followed by a
\* newline leave the cursor at (r + 1, 0): the filled line is not wrapped
\* before the newline, and no empty row is put in.
C18_WrapConsumesNewline ==
    FullLineThenNewline =>
        /\ prev.column_position = BUFFER_WIDTH
        /\ prev.row_position = start.row_position
        /\ writer.row_position = start.row_position + 1
        /\ writer.column_position = 0
        /\ writer.buffer = prev.buffer

\* The case of C18 on a row below the first.
C18_Witness ==
    /\ FullLineThenNewline
    /\ start.row_position > 0
    /\ writer.row_position = start.row_position + 1

\* C19: a placed byte at a column < W puts its glyph and the color in the cell
\* under the cursor, changes no other cell, keeps the row and adds 1 to the
\* column; no byte changes input_mode or the color of the writer.
C19_PlacementFrame ==
    Acted =>
        /\ writer.input_mode = prev.input_mode
        /\ writer.color_code = prev.color_code
        /\ (IsPlaced(Last) /\ prev.column_position < BUFFER_WIDTH) =>
             /\ writer.row_position = prev.row_position
             /\ writer.column_position = prev.column_position + 1
             /\ \A row \in Rows, col \in Cols :
                  writer.buffer[row][col] =
                      IF row = prev.row_position /\ col = prev.column_position
                      THEN ScreenChar(Glyph(Last), prev.color_code)
                      ELSE prev.buffer[row][col]

\* A placeholder was placed in the last column of a line, over a cell never
\* written.
C19_Witness ==
    /\ Acted
    /\ Last \in Unsupported
    /\ prev.column_position = BUFFER_WIDTH - 1
    /\ prev.buffer[prev.row_position][prev.column_position] \in InitCells
    /\ writer.column_position = BUFFER_WIDTH

====
